---- MODULE Spec2Model ----
(***************************************************************************)
(* Model of the sensor server of XiaomiMijiaReader (src/wss.py) and of the *)
(* two helper scripts it runs as subprocesses (src/find_new_xdevices.py,   *)
(* src/get_sensor_data.py).                                                *)
(*                                                                         *)
(* The server is one asyncio event loop: the gather_readings task and one  *)
(* new_client task per connection.  A task runs alone from one await to    *)
(* the next, so every action below is the code between two awaits of one   *)
(* task.  The scheduler's longer stretches are cut into several actions;   *)
(* the positions between them (TransientPc) are not awaits, and no other   *)
(* task and no clock tick is enabled while the scheduler is at one.        *)
(* The three threading.Lock objects are blocking locks: a task that        *)
(* acquires a held one blocks the only thread, and nothing runs again.     *)
(***************************************************************************)
EXTENDS Integers, Sequences, FiniteSets, TLC

(* ------------------------------ bounds -------------------------------- *)
MaxTime == 2
MaxEvents == 3
MaxSessionEvents == 4

(* ------------------------- program constants -------------------------- *)
TEMP_HUM_DEV_ADDR_START == <<"A4", "C1", "38">>
TEMP_HUM_DEV_NAME == "LYWSD03MMC"

OK == 0
INVALID_ARGS == 1
USER_CANCELLED == 2
TIMED_OUT == 3
DISCONNECTED == 4
UNKNOWN_ERROR == 5
\* wait_for() raising asyncio.TimeoutError at the 180 s ceiling: no exit status
CEILING == 6

ExitOutcomes == {OK, INVALID_ARGS, USER_CANCELLED, TIMED_OUT, DISCONNECTED,
                 UNKNOWN_ERROR}
Outcomes == ExitOutcomes \cup {CEILING}

\* client_id=None of broadcast_message
NoTarget == -1

(* ------------------------------ helpers ------------------------------- *)
Min(S) == CHOOSE x \in S : \A y \in S : x <= y

\* {**a, **b}: the entries of b win over those of a
DictMerge(a, b) ==
    [k \in DOMAIN a \cup DOMAIN b |-> IF k \in DOMAIN b THEN b[k] ELSE a[k]]

EmptyDict == [k \in {} |-> 0]

\* datetime.isoformat() / datetime.fromisoformat(): a string that carries
\* the instant
IsoFormat(t) == [iso |-> t]
FromIsoFormat(s) == s.iso

\* json.dumps(): a text fixed when it is built; later changes of the value
\* it was built from do not show in it
Dumps(v) == [json |-> v]

(* ------------------- find_new_xdevices.py (discovery) ------------------ *)
AddrA == <<"A4", "C1", "38", "00", "00", "01">>
AddrX == <<"11", "22", "33", "44", "55", "66">>

\* what service.discover() can see: address -> advertised name
Peripherals ==
    { [addr |-> AddrA, name |-> TEMP_HUM_DEV_NAME],
      [addr |-> AddrX, name |-> "other"] }

\* addr[:len(TEMP_HUM_DEV_ADDR_START)] == TEMP_HUM_DEV_ADDR_START
HasVendorPrefix(addr) ==
    /\ Len(addr) >= Len(TEMP_HUM_DEV_ADDR_START)
    /\ SubSeq(addr, 1, Len(TEMP_HUM_DEV_ADDR_START)) = TEMP_HUM_DEV_ADDR_START

IsXiaomi(p) == HasVendorPrefix(p.addr) \/ p.name = TEMP_HUM_DEV_NAME

\* "Sensor %02d" % n   (n < 100)
SensorName(n) == <<"Sensor ", n \div 10, n % 10>>

\* f'sensor_{addr.replace(":", "")}_history.json'
HistoryFile(addr) == <<"sensor_">> \o addr \o <<"_history.json">>

None == [timestamp |-> -1, temperature |-> 0]

NewDevice(p, index) ==
    [ dev_name     |-> p.name,
      addr         |-> p.addr,
      sensor_name  |-> SensorName(index),
      history_file |-> HistoryFile(p.addr),
      active       |-> TRUE,
      last_reading |-> None ]

\* the loop of the script over devices.items(), in the order `found`
RECURSIVE ScanLoop(_, _, _, _)
ScanLoop(found, existing, next_index, x_devices) ==
    IF found = <<>> THEN x_devices
    ELSE LET p == Head(found) IN
         IF IsXiaomi(p) /\ p.addr \notin existing
         THEN ScanLoop(Tail(found), existing, next_index + 1,
                       DictMerge(x_devices,
                                 [a \in {p.addr} |-> NewDevice(p, next_index)]))
         ELSE ScanLoop(Tail(found), existing, next_index, x_devices)

\* FindNewXDevices numbering from the number of known addresses
FindNewXDevicesFromCount(found, existing) ==
    ScanLoop(found, existing, Cardinality(existing), EmptyDict)

\* existing: the addresses given with -e; found: what the scan saw, in order
FindNewXDevices(found, existing) ==
    ScanLoop(found, existing, Cardinality(existing) + 1, EmptyDict)

\* every order in which a scan can return a set of peripherals
RECURSIVE Orders(_)
Orders(S) ==
    IF S = {} THEN {<<>>}
    ELSE UNION { { <<p>> \o o : o \in Orders(S \ {p}) } : p \in S }

Scans == UNION { Orders(S) : S \in SUBSET Peripherals }

\* a larger neighbourhood, for the script on its own: vendor prefix and
\* model name, prefix only, name only, neither
AddrB == <<"A4", "C1", "38", "00", "00", "02">>
AddrC == <<"11", "22", "33", "00", "00", "03">>

BatchPeripherals ==
    { [addr |-> AddrA, name |-> TEMP_HUM_DEV_NAME],
      [addr |-> AddrB, name |-> "other"],
      [addr |-> AddrC, name |-> TEMP_HUM_DEV_NAME],
      [addr |-> AddrX, name |-> "other"] }

BatchScans == UNION { Orders(S) : S \in SUBSET BatchPeripherals }

\* the registries the script can be told about with -e
KnownSets == SUBSET {AddrA, AddrC, AddrX}

(* ------------------------------ inputs -------------------------------- *)
SENSOR_FILE == "wss_sensors.json"

\* timedelta(minutes=mins, seconds=secs), in seconds
Timedelta(iv) == iv.mins * 60 + iv.secs

\* what a temperature reading can be
Temps == {21}

\* the payload of the one `settings` command a client sends
SettingsPayload ==
    [ interval     |-> [mins |-> 0, secs |-> 2],
      sensor_file  |-> SENSOR_FILE,
      save_id      |-> 7,
      scan_seconds |-> 5,
      max_attempts |-> 1,
      next_scan    |-> IsoFormat(MaxTime) ]

\* the payload of the one `sensors` command a client sends
DevicesPayload ==
    [ a \in {AddrA} |->
        [ dev_name     |-> TEMP_HUM_DEV_NAME,
          addr         |-> AddrA,
          sensor_name  |-> <<"Kitchen">>,
          history_file |-> <<"kitchen.json">>,
          active       |-> FALSE,
          last_reading |-> None ] ]

\* the payload of the one `single_sensor` command a client sends
SingleSensorPayload ==
    [ index  |-> AddrA,
      sensor |-> [sensor_name |-> <<"Hall">>, active |-> FALSE] ]

\* what client.recv() can return: a text json.loads() rejects, a JSON value
\* without 'cmd', a command without 'data', and commands with both
Inbound ==
    { [kind |-> "undecodable"],
      [kind |-> "no_cmd"],
      [kind |-> "no_data", cmd |-> "bogus"],
      [kind |-> "command", cmd |-> "bogus"],
      [kind |-> "command", cmd |-> "settings"],
      [kind |-> "command", cmd |-> "sensors"],
      [kind |-> "command", cmd |-> "single_sensor"] }

(* ------------------------------- state -------------------------------- *)
VARIABLES
    now,            \* datetime.now(), in seconds
    settings,       \* self._settings
    devices,        \* self._devices
    settings_file,  \* what save_settings last wrote
    sensor_file,    \* what save_devices last wrote
    history,        \* the history files: file name -> (timestamp -> reading)
    settings_lock,  \* self._settings_lock is held
    sensor_lock,    \* self._sensor_lock is held
    client_lock,    \* self._client_lock is held
    clients,        \* the keys of self._clients
    client_count,   \* self._client_count
    closed,         \* the sessions whose transport is closed or broken
    cpc,            \* where each new_client task is
    outbox,         \* what client.send() wrote to each session, in order
    handled,        \* the sessions whose recv() returned a message
    events,         \* how many connects, closes and inbound messages so far
    schedPc,        \* where the gather_readings task is
    schedError,     \* the exception that ended the gather_readings task
    next_scan,      \* gather_readings: next_scan
    interval,       \* gather_readings: interval
    max_attempts,   \* gather_readings: max_attempts
    existing,       \* find_new_xiaomi_devices: the addresses passed with -e
    wake_at,        \* when asyncio.sleep(1) is over
    rdevices,       \* gather_sensor_readings: devices (a dict object)
    aliased,        \* rdevices and self._devices are the same dict object
    keys_left,      \* gather_sensor_readings: the keys not yet iterated
    cur_addr,       \* gather_sensor_readings: addr
    attempts,       \* gather_sensor_readings: attempts
    readings_complete, \* gather_sensor_readings: readings_complete
    bc_message,     \* broadcast_message: message_json
    bc_size,        \* broadcast_message: len(self._clients) when iteration began
    bc_last,        \* broadcast_message: the last key the iteration returned
    trace,          \* the read attempts made for cur_addr in this cycle
    saves,          \* how many save_settings calls completed
    settings_cmds,  \* how many `settings` commands were handled
    sensors_cmds,   \* how many `sensors` commands were handled
    bc_members,     \* broadcast_message: the open sessions when it was called
    cycles,         \* how many cycles reached "Done for now."
    discovery,      \* how find_new_xiaomi_devices ended, and what it returned
    last_msg,       \* the last message a recv() returned, and to which session
    budget,         \* how many connects, closes and inbound messages may happen
    fn_pc,          \* "in": fn_in is to be evaluated; "out": fn_out is the result
    fn_in,          \* the arguments of a function evaluated on its own
    fn_out          \* its result

sharedVars == <<settings, devices, settings_file, sensor_file, history,
                settings_lock, sensor_lock, client_lock>>
clientVars == <<clients, client_count, closed, cpc, outbox, handled, last_msg,
                events, settings_cmds, sensors_cmds>>
schedVars == <<schedPc, schedError, next_scan, interval, max_attempts, existing,
               wake_at, rdevices, aliased, keys_left, cur_addr, attempts,
               readings_complete, bc_message, bc_size, bc_last, bc_members,
               trace, saves, cycles, discovery>>
auxVars == <<budget, fn_pc, fn_in, fn_out>>
vars == <<now, sharedVars, clientVars, schedVars, auxVars>>

ClientIds == 0 .. (MaxSessionEvents - 1)

\* the positions of gather_readings that are awaits (or its end)
AwaitPc == {"created", "sleeping", "discovering", "reading", "sending", "dead"}
\* the positions between two actions of one stretch of code without await
TransientPc == {"loop", "next_device", "attempt", "store", "broadcast", "advance"}

\* no task is in the middle of a stretch of code and the thread is not
\* blocked in Lock.acquire: the event loop can resume any task that is ready
LoopFree == schedPc \in AwaitPc /\ \A c \in ClientIds : cpc[c] # "blocked"
Blocked == schedPc = "blocked" \/ \E c \in ClientIds : cpc[c] = "blocked"

NoAddr == <<>>

(* ------------------------ load_settings / Init ------------------------- *)
\* load_settings: the defaults, saved once (save_id 0 -> 1), or a settings
\* file written by an earlier run
InitialSettings ==
    [ interval     |-> [mins |-> 0, secs |-> 1],
      sensor_file  |-> SENSOR_FILE,
      save_id      |-> 1,
      scan_seconds |-> 5,
      max_attempts |-> 3,
      next_scan    |-> IsoFormat(0) ]

NoMessage == [by |-> NoTarget, msg |-> [kind |-> "none"]]

\* find_new_xiaomi_devices has not returned, or the reading pass has begun
NoDiscovery == [how |-> "none", result |-> EmptyDict]

\* lines 43-61: __init__
InitProgram ==
    /\ now = 0
    /\ settings = InitialSettings
    /\ devices = EmptyDict
    /\ settings_file = Dumps(settings)
    /\ sensor_file = Dumps(EmptyDict)
    /\ history = EmptyDict
    /\ settings_lock = FALSE
    /\ sensor_lock = FALSE
    /\ client_lock = FALSE
    /\ clients = {}
    /\ client_count = 0
    /\ closed = {}
    /\ cpc = [c \in ClientIds |-> "none"]
    /\ outbox = [c \in ClientIds |-> <<>>]
    /\ handled = {}
    /\ events = 0
    /\ schedError = "none"
    /\ next_scan = 0
    /\ interval = 0
    /\ max_attempts = 0
    /\ existing = {}
    /\ rdevices = EmptyDict
    /\ aliased = FALSE
    /\ keys_left = {}
    /\ cur_addr = NoAddr
    /\ attempts = 0
    /\ readings_complete = FALSE
    /\ bc_message = Dumps(EmptyDict)
    /\ bc_size = 0
    /\ bc_last = NoTarget
    /\ trace = <<>>
    /\ saves = 0
    /\ settings_cmds = 0
    /\ sensors_cmds = 0
    /\ bc_members = {}
    /\ cycles = 0
    /\ discovery = NoDiscovery
    /\ last_msg = NoMessage

\* no function is evaluated on its own
NoFn ==
    /\ fn_pc = "idle"
    /\ fn_in = <<>>
    /\ fn_out = <<>>

\* line 61: the gather_readings task is created, not yet started
Init ==
    /\ InitProgram
    /\ schedPc = "created"
    /\ wake_at = 0
    /\ budget = MaxEvents
    /\ NoFn

(* --------------------- gather_readings (scheduler) --------------------- *)
\* the locals of one cycle, when no cycle is under way (their values are
\* never read again)
NoCycleLocals ==
    /\ interval' = 0
    /\ max_attempts' = 0
    /\ existing' = {}
    /\ bc_message' = Dumps(EmptyDict)
    /\ bc_size' = 0
    /\ bc_last' = NoTarget
    /\ bc_members' = {}

\* the locals of gather_sensor_readings, when it is not running
NoReadLocals ==
    /\ rdevices' = EmptyDict
    /\ aliased' = FALSE
    /\ keys_left' = {}
    /\ cur_addr' = NoAddr
    /\ attempts' = 0
    /\ readings_complete' = FALSE
    /\ trace' = <<>>

\* the scheduler blocks in Lock.acquire(True): the thread never runs again
SchedBlocks ==
    /\ schedPc' = "blocked"
    /\ UNCHANGED <<now, auxVars, sharedVars, clientVars, schedError, next_scan, interval,
                   max_attempts, existing, wake_at, rdevices, aliased, keys_left,
                   cur_addr, attempts, readings_complete, bc_message, bc_size,
                   bc_last, bc_members, trace, saves, cycles, discovery>>

\* an exception leaves gather_readings: the task is over, its locals are gone
SchedRaises(error) ==
    /\ schedPc' = "dead"
    /\ schedError' = error
    /\ next_scan' = 0
    /\ wake_at' = 0
    /\ NoCycleLocals
    /\ NoReadLocals

\* lines 90-91
StartNextScan(loaded, t) == IF t > loaded THEN t ELSE loaded

\* lines 86-91: up to the first test of the while loop
SchedStart ==
    /\ schedPc = "created"
    /\ LoopFree
    /\ IF settings_lock
       THEN SchedBlocks
       ELSE /\ next_scan' = StartNextScan(FromIsoFormat(settings.next_scan), now)
            /\ schedPc' = "loop"
            /\ UNCHANGED <<now, auxVars, sharedVars, clientVars, schedError, interval,
                           max_attempts, existing, wake_at, rdevices, aliased,
                           keys_left, cur_addr, attempts, readings_complete,
                           bc_message, bc_size, bc_last, bc_members, trace, saves, cycles, discovery>>

\* line 94: the gate of a cycle
ScanDue(t, ns) == t > ns

\* lines 93-112 and 156-157: the test of the loop; either the settings are
\* read and the discovery subprocess is started, or the task sleeps
SchedLoop ==
    /\ schedPc = "loop"
    /\ IF ScanDue(now, next_scan) /\ settings_lock
       THEN SchedBlocks
       ELSE /\ IF ScanDue(now, next_scan)
               THEN /\ max_attempts' = settings.max_attempts
                    /\ interval' = Timedelta(settings.interval)
                    /\ existing' = DOMAIN devices
                    /\ schedPc' = "discovering"
                    /\ UNCHANGED wake_at
               ELSE /\ wake_at' = now + 1
                    /\ schedPc' = "sleeping"
                    /\ UNCHANGED <<max_attempts, interval, existing>>
            /\ UNCHANGED <<now, auxVars, sharedVars, clientVars, schedError, next_scan,
                           rdevices, aliased, keys_left, cur_addr, attempts,
                           readings_complete, bc_message, bc_size, bc_last, bc_members, trace,
                           saves, cycles, discovery>>

\* line 157: asyncio.sleep(1) is over
SchedWake ==
    /\ schedPc = "sleeping"
    /\ LoopFree
    /\ now >= wake_at
    /\ wake_at' = 0
    /\ schedPc' = "loop"
    /\ UNCHANGED <<now, auxVars, sharedVars, clientVars, schedError, next_scan, interval,
                   max_attempts, existing, rdevices, aliased, keys_left,
                   cur_addr, attempts, readings_complete, bc_message, bc_size,
                   bc_last, bc_members, trace, saves, cycles, discovery>>

\* DiscoveryResult reading the output whatever the exit status
DiscoveryResultAnyStatus(how, found, known) == FindNewXDevices(found, known)

\* lines 351-373: what find_new_xiaomi_devices returns.  `how` is "exit0"
\* (the script printed its result), "failed" (another exit status) or
\* "timeout" (wait_for gave up: proc.returncode is still None)
DiscoveryResult(how, found, known) ==
    IF how = "exit0" THEN FindNewXDevices(found, known) ELSE EmptyDict

\* line 115
MergeDevices(current, new_x_devices) == DictMerge(current, new_x_devices)

\* lines 109-127 and 443: the discovery subprocess is over; merge, save,
\* and enter gather_sensor_readings with the dict object of self._devices
SchedDiscovered ==
    /\ schedPc = "discovering"
    /\ LoopFree
    /\ \E how \in {"exit0", "failed", "timeout"}, found \in Scans :
         /\ LET new_x_devices == DiscoveryResult(how, found, existing) IN
            IF new_x_devices # EmptyDict /\ sensor_lock
            THEN SchedBlocks
            ELSE /\ discovery' = [how |-> how, result |-> new_x_devices]
                 /\ devices' = IF new_x_devices # EmptyDict
                               THEN MergeDevices(devices, new_x_devices)
                               ELSE devices
                 /\ sensor_file' = IF new_x_devices # EmptyDict
                                   THEN Dumps(devices')
                                   ELSE sensor_file
                 /\ rdevices' = devices'
                 /\ aliased' = TRUE
                 /\ keys_left' = DOMAIN devices'
                 /\ schedPc' = "next_device"
                 /\ UNCHANGED <<now, auxVars, settings, settings_file, history,
                                settings_lock, sensor_lock, client_lock,
                                clientVars, schedError, next_scan, interval,
                                max_attempts, existing, wake_at, cur_addr,
                                attempts, readings_complete, bc_message, bc_size,
                                bc_last, bc_members, trace, saves, cycles>>

\* lines 445-448: the next key of the for loop, or its end
SchedNextDevice ==
    /\ schedPc = "next_device"
    /\ IF keys_left = {}
       THEN /\ schedPc' = "store"
            /\ cur_addr' = NoAddr
            /\ UNCHANGED keys_left
       ELSE \E addr \in keys_left :
            /\ keys_left' = keys_left \ {addr}
            /\ cur_addr' = addr
            /\ schedPc' = "attempt"
    /\ attempts' = 0
    /\ readings_complete' = FALSE
    /\ trace' = <<>>
    /\ discovery' = NoDiscovery
    /\ UNCHANGED <<now, auxVars, sharedVars, clientVars, schedError, next_scan, interval,
                   max_attempts, existing, wake_at, rdevices, aliased, bc_message,
                   bc_size, bc_last, bc_members, saves, cycles>>

\* AttemptDue without the limit on the attempts
AttemptDueUnlimited(n, max, complete) == ~complete

\* line 449
AttemptDue(n, max, complete) == n < max /\ ~complete

\* lines 449-462: the test of the while loop; the read subprocess is started
SchedAttempt ==
    /\ schedPc = "attempt"
    /\ IF AttemptDue(attempts, max_attempts, readings_complete)
       THEN /\ attempts' = attempts + 1
            /\ schedPc' = "reading"
       ELSE /\ schedPc' = "next_device"
            /\ UNCHANGED attempts
    /\ UNCHANGED <<now, auxVars, sharedVars, clientVars, schedError, next_scan, interval,
                   max_attempts, existing, wake_at, rdevices, aliased, keys_left,
                   cur_addr, readings_complete, bc_message, bc_size, bc_last, bc_members,
                   trace, saves, cycles, discovery>>

\* AfterAttempt with a timed-out attempt ending the retries
AfterAttemptTimeoutGivesUp(outcome, n, max) ==
    CASE outcome = CEILING        -> [attempts |-> n, complete |-> FALSE, error |-> "NameError"]
      [] outcome = OK             -> [attempts |-> n, complete |-> TRUE, error |-> "none"]
      [] outcome = INVALID_ARGS   -> [attempts |-> n, complete |-> FALSE, error |-> "RuntimeError"]
      [] outcome = USER_CANCELLED -> [attempts |-> n, complete |-> TRUE, error |-> "none"]
      [] OTHER                    -> [attempts |-> max, complete |-> FALSE, error |-> "none"]

\* AfterAttempt with a disconnected attempt retried like a timed-out one
AfterAttemptDisconnectRetries(outcome, n, max) ==
    CASE outcome = CEILING        -> [attempts |-> n, complete |-> FALSE, error |-> "NameError"]
      [] outcome = OK             -> [attempts |-> n, complete |-> TRUE, error |-> "none"]
      [] outcome = INVALID_ARGS   -> [attempts |-> n, complete |-> FALSE, error |-> "RuntimeError"]
      [] outcome = USER_CANCELLED -> [attempts |-> n, complete |-> TRUE, error |-> "none"]
      [] outcome = TIMED_OUT      -> [attempts |-> n, complete |-> FALSE, error |-> "none"]
      [] outcome = DISCONNECTED   -> [attempts |-> n, complete |-> FALSE, error |-> "none"]
      [] OTHER                    -> [attempts |-> max, complete |-> FALSE, error |-> "none"]

\* lines 463-470: an exception in the try block reaches the first except
\* clause, whose expression concurrent.futures._base.TimeoutError raises
\* NameError (wss.py never imports concurrent)
\* lines 472-492: the chain over proc.returncode
AfterAttempt(outcome, n, max) ==
    CASE outcome = CEILING        -> [attempts |-> n, complete |-> FALSE, error |-> "NameError"]
      [] outcome = OK             -> [attempts |-> n, complete |-> TRUE, error |-> "none"]
      [] outcome = INVALID_ARGS   -> [attempts |-> n, complete |-> FALSE, error |-> "RuntimeError"]
      [] outcome = USER_CANCELLED -> [attempts |-> n, complete |-> TRUE, error |-> "none"]
      [] outcome = TIMED_OUT      -> [attempts |-> n, complete |-> FALSE, error |-> "none"]
      [] outcome = DISCONNECTED   -> [attempts |-> max, complete |-> FALSE, error |-> "none"]
      [] OTHER                    -> [attempts |-> max, complete |-> FALSE, error |-> "none"]

\* Records that also takes what a timed-out attempt printed
RecordsTimedOut(outcome) == outcome \in {OK, TIMED_OUT}

\* line 472: the attempts whose output is recorded
Records(outcome) == outcome = OK

\* line 476
SetLastReading(devs, addr, reading) ==
    [devs EXCEPT ![addr] = [@ EXCEPT !.last_reading = reading]]

\* UpdateHistories that keeps the entry a timestamp already has
UpdateHistoriesKeepFirst(files, device, new_reading) ==
    LET old == IF device.history_file \in DOMAIN files
               THEN files[device.history_file] ELSE EmptyDict
        new == DictMerge([t \in {new_reading.timestamp} |-> new_reading], old)
    IN DictMerge(files, [f \in {device.history_file} |-> new])

\* lines 523-540: update_histories
UpdateHistories(files, device, new_reading) ==
    LET old == IF device.history_file \in DOMAIN files
               THEN files[device.history_file] ELSE EmptyDict
        new == DictMerge(old, [t \in {new_reading.timestamp} |-> new_reading])
    IN DictMerge(files, [f \in {device.history_file} |-> new])

\* lines 459-492: the read subprocess is over (or wait_for gave up)
SchedRead ==
    /\ schedPc = "reading"
    /\ LoopFree
    /\ \E outcome \in Outcomes, temp \in Temps :
         LET reading == [timestamp |-> now, temperature |-> temp]
             after == AfterAttempt(outcome, attempts, max_attempts)
         IN
         /\ outcome # OK => temp = Min(Temps)
         /\ IF after.error # "none"
            THEN /\ SchedRaises(after.error)
                 /\ UNCHANGED <<devices, history>>
            ELSE /\ attempts' = after.attempts
                 /\ readings_complete' = after.complete
                 /\ trace' = Append(trace,
                                    [outcome |-> outcome,
                                     reading |-> IF outcome = OK THEN reading
                                                 ELSE None])
                 /\ schedPc' = "attempt"
                 /\ IF Records(outcome)
                    THEN /\ rdevices' = SetLastReading(rdevices, cur_addr, reading)
                         /\ devices' = IF aliased THEN rdevices' ELSE devices
                         /\ history' = UpdateHistories(history, rdevices'[cur_addr],
                                                       reading)
                    ELSE UNCHANGED <<rdevices, devices, history>>
                 /\ UNCHANGED <<schedError, next_scan, interval, max_attempts,
                                existing, wake_at, aliased, keys_left, cur_addr,
                                bc_message, bc_size, bc_last, bc_members>>
    /\ UNCHANGED <<now, auxVars, settings, settings_file, sensor_file, settings_lock,
                   sensor_lock, client_lock, clientVars, saves, cycles, discovery>>

\* SensorsMessage built while the readings of the map are being written
SensorsMessageTorn(devs) ==
    Dumps([cmd |-> "sensors",
           data |-> [a \in DOMAIN devs |-> [devs[a] EXCEPT !.last_reading = None]]])

\* lines 206-211: the message of broadcast_sensors
SensorsMessage(devs) == Dumps([cmd |-> "sensors", data |-> devs])

\* lines 194-199: the message of broadcast_settings
SettingsMessage(s) == Dumps([cmd |-> "settings", data |-> s])

\* StoreDevices keeping the map a client installed during the pass
StoreDevicesKeepShared(shared, pass) == shared

\* line 129: self._devices = devices
StoreDevices(shared, pass) == pass

\* lines 128-136, 206-212 and 164-171: the reading pass is over; the dict it
\* worked on becomes self._devices and is saved, and broadcast_sensors()
\* builds its message and takes the keys of self._clients
SchedStore ==
    /\ schedPc = "store"
    /\ IF sensor_lock
       THEN SchedBlocks
       ELSE /\ devices' = StoreDevices(devices, rdevices)
            /\ sensor_file' = Dumps(devices')
            /\ NoReadLocals
            /\ bc_message' = SensorsMessage(devices')
            /\ bc_size' = Cardinality(clients)
            /\ bc_last' = NoTarget
            /\ bc_members' = clients \ closed
            /\ schedPc' = "broadcast"
            /\ UNCHANGED <<now, auxVars, settings, settings_file, history, settings_lock,
                           sensor_lock, client_lock, clientVars, schedError,
                           next_scan, interval, max_attempts, existing, wake_at,
                           saves, cycles, discovery>>

\* what one entry of outbox records: the text and the client_id argument of
\* the broadcast_message call that sent it
Sent(message, target) == [text |-> message, to |-> target]

\* BroadcastKeys that ignores client_id
BroadcastKeysAll(client_id, members) == members

\* lines 167-176: the keys broadcast_message sends to: those of
\* self._clients, or the one client_id it was given
BroadcastKeys(client_id, members) ==
    IF client_id = NoTarget THEN members ELSE {client_id}

\* client.send(msg) for every key of a set
Deliver(boxes, keys, entry) ==
    [k \in DOMAIN boxes |-> IF k \in keys THEN Append(boxes[k], entry) ELSE boxes[k]]

\* line 178: the next key of the iteration over the live view of
\* self._clients.  The iterator raises RuntimeError when the dict changed
\* size since the iteration began; the ids are inserted in increasing order,
\* so the entries come in the order of the ids.  -2: RuntimeError, -1: the
\* end of the iteration.
NextKey(members, size, last) ==
    IF Cardinality(members) # size THEN -2
    ELSE IF {k \in members : k > last} = {} THEN -1
    ELSE Min({k \in members : k > last})

\* lines 179-188: a failed send is printed and raised again
SendFails(key, broken) == key \in broken

\* AfterBroadcast going back to the test of the loop
AfterBroadcastIdle == "loop"

\* lines 136-138: what follows `await self.broadcast_sensors()`
AfterBroadcast == "advance"

\* lines 178-188: one step of `for key in keys`
SchedBroadcast ==
    /\ \/ schedPc = "broadcast"
       \/ schedPc = "sending" /\ LoopFree
    /\ LET key == NextKey(BroadcastKeys(NoTarget, clients), bc_size, bc_last) IN
       IF key = -2
       THEN /\ SchedRaises("RuntimeError: dictionary changed size")
            /\ UNCHANGED outbox
       ELSE IF key # -1 /\ SendFails(key, closed)
       THEN /\ SchedRaises("ConnectionClosed")
            /\ UNCHANGED outbox
       ELSE /\ IF key = -1
               THEN /\ schedPc' = AfterBroadcast
                    /\ UNCHANGED <<outbox, bc_last>>
               ELSE /\ outbox' = Deliver(outbox, {key}, Sent(bc_message, NoTarget))
                    /\ bc_last' = key
                    /\ schedPc' = "sending"
            /\ UNCHANGED <<schedError, next_scan, interval, max_attempts,
                           existing, wake_at, rdevices, aliased, keys_left,
                           cur_addr, attempts, readings_complete, bc_message,
                           bc_size, bc_members, trace>>
    /\ UNCHANGED <<now, auxVars, sharedVars, clients, client_count, closed, cpc, handled,
                   last_msg,
                   events, settings_cmds, sensors_cmds, saves, cycles, discovery>>

\* AdvanceNextScan anchored to the time the cycle completed
AdvanceFromCompletion(ns, iv, t) == t + iv

\* lines 138-144
AdvanceNextScan(ns, iv, t) == IF t > ns + iv THEN t ELSE ns + iv

\* SaveSettings without the increment
SaveSettingsNoCount(s) == s

\* lines 331-338: save_settings changes the dict it is given
SaveSettings(s) == [s EXCEPT !.save_id = @ + 1]

\* lines 138-155: next_scan is advanced and written into the settings, and
\* the settings are saved
SchedAdvance ==
    /\ schedPc = "advance"
    /\ IF settings_lock
       THEN SchedBlocks
       ELSE /\ next_scan' = AdvanceNextScan(next_scan, interval, now)
            /\ settings' = SaveSettings([settings EXCEPT
                                           !.next_scan = IsoFormat(next_scan')])
            /\ settings_file' = Dumps(settings')
            /\ saves' = saves + 1
            /\ cycles' = cycles + 1
            /\ NoCycleLocals
            /\ schedPc' = "loop"
            /\ UNCHANGED <<now, auxVars, devices, sensor_file, history, settings_lock,
                           sensor_lock, client_lock, clientVars, schedError,
                           wake_at, rdevices, aliased, keys_left, cur_addr,
                           attempts, readings_complete, trace, discovery>>

\* time passes while the event loop waits
Tick ==
    /\ LoopFree
    /\ now < MaxTime
    /\ now' = now + 1
    /\ UNCHANGED <<sharedVars, clientVars, schedVars, auxVars>>

SchedNext ==
    \/ SchedStart
    \/ SchedLoop
    \/ SchedWake
    \/ SchedDiscovered
    \/ SchedNextDevice
    \/ SchedAttempt
    \/ SchedRead
    \/ SchedStore
    \/ SchedBroadcast
    \/ SchedAdvance

(* ----------------------- new_client (one session) ---------------------- *)
\* lines 318-324 (a removed session's transport is of no interest any more)
RemoveClient(c) ==
    /\ clients' = clients \ {c}
    /\ closed' = closed \ {c}

\* NextClientCount without the increment
SameClientCount(count) == count

\* line 259
NextClientCount(count) == count + 1

\* lines 257-265 and 194-200: a connection is accepted; the session is
\* registered and broadcast_settings(client_id) sends it the settings
Connect ==
    /\ LoopFree
    /\ events < budget
    /\ events' = events + 1
    /\ LET client_id == client_count IN
       /\ client_count' = NextClientCount(client_count)
       /\ clients' = clients \cup {client_id}
       /\ IF settings_lock
          THEN /\ cpc' = [cpc EXCEPT ![client_id] = "blocked"]
               /\ UNCHANGED outbox
          ELSE /\ outbox' = Deliver(outbox, BroadcastKeys(client_id, clients'),
                                    Sent(SettingsMessage(settings), client_id))
               /\ cpc' = [cpc EXCEPT ![client_id] = "settings_sent"]
    /\ UNCHANGED <<now, auxVars, sharedVars, closed, handled, last_msg, settings_cmds,
                   sensors_cmds,
                   schedVars>>

\* lines 266, 206-212 and 178-188: the first send is over;
\* broadcast_sensors(client_id) sends the session the devices.  A send on a
\* closed transport raises ConnectionClosed and the session is removed
\* (lines 301-316)
ClientSendSensors(c) ==
    /\ cpc[c] = "settings_sent"
    /\ LoopFree
    /\ \/ /\ ~sensor_lock
          /\ SendFails(c, closed)
          /\ RemoveClient(c)
          /\ cpc' = [cpc EXCEPT ![c] = "removed"]
          /\ UNCHANGED outbox
       \/ /\ sensor_lock
          /\ cpc' = [cpc EXCEPT ![c] = "blocked"]
          /\ UNCHANGED <<clients, closed, outbox>>
       \/ /\ ~sensor_lock
          /\ ~SendFails(c, closed)
          /\ outbox' = Deliver(outbox, BroadcastKeys(c, clients),
                               Sent(SensorsMessage(devices), c))
          /\ cpc' = [cpc EXCEPT ![c] = "sensors_sent"]
          /\ UNCHANGED <<clients, closed>>
    /\ UNCHANGED <<now, auxVars, sharedVars, client_count, handled, last_msg, events,
                   settings_cmds,
                   sensors_cmds, schedVars>>

\* lines 214-251: handle_message.  broadcast_settings() and
\* broadcast_sensors() are called without await: the coroutine objects are
\* dropped and nothing is sent.  single_sensor reads self._sensors, which
\* does not exist: AttributeError with the sensor lock held.  A message
\* without 'cmd' or 'data' raises at lines 219-220.
HandleMessage(c, m) ==
    CASE m.kind \in {"no_cmd", "no_data"} ->
           /\ cpc' = [cpc EXCEPT ![c] = "removed"]
           /\ UNCHANGED <<settings, devices, aliased, sensor_lock, settings_cmds,
                          sensors_cmds>>
      [] m.kind = "command" /\ m.cmd = "settings" ->
           IF settings_lock
           THEN /\ cpc' = [cpc EXCEPT ![c] = "blocked"]
                /\ UNCHANGED <<settings, devices, aliased, sensor_lock,
                               settings_cmds, sensors_cmds>>
           ELSE /\ settings' = SettingsPayload
                /\ settings_cmds' = settings_cmds + 1
                /\ cpc' = [cpc EXCEPT ![c] = "recv"]
                /\ UNCHANGED <<devices, aliased, sensor_lock, sensors_cmds>>
      [] m.kind = "command" /\ m.cmd = "sensors" ->
           IF sensor_lock
           THEN /\ cpc' = [cpc EXCEPT ![c] = "blocked"]
                /\ UNCHANGED <<settings, devices, aliased, sensor_lock,
                               settings_cmds, sensors_cmds>>
           ELSE /\ devices' = DevicesPayload
                /\ aliased' = FALSE
                /\ sensors_cmds' = sensors_cmds + 1
                /\ cpc' = [cpc EXCEPT ![c] = "recv"]
                /\ UNCHANGED <<settings, sensor_lock, settings_cmds>>
      [] m.kind = "command" /\ m.cmd = "single_sensor" ->
           IF sensor_lock
           THEN /\ cpc' = [cpc EXCEPT ![c] = "blocked"]
                /\ UNCHANGED <<settings, devices, aliased, sensor_lock,
                               settings_cmds, sensors_cmds>>
           ELSE /\ sensor_lock' = TRUE
                /\ cpc' = [cpc EXCEPT ![c] = "removed"]
                /\ UNCHANGED <<settings, devices, aliased, settings_cmds,
                               sensors_cmds>>
      [] OTHER ->
           /\ cpc' = [cpc EXCEPT ![c] = "recv"]
           /\ UNCHANGED <<settings, devices, aliased, sensor_lock, settings_cmds,
                          sensors_cmds>>

\* lines 270-316: client.recv() is over: it raised ConnectionClosed, or it
\* returned a message, which is decoded and handled; an exception that
\* leaves the loop removes the session
ClientRecv(c) ==
    /\ cpc[c] \in {"sensors_sent", "recv"}
    /\ LoopFree
    /\ \/ /\ c \in closed
          /\ RemoveClient(c)
          /\ cpc' = [cpc EXCEPT ![c] = "removed"]
          /\ UNCHANGED <<settings, devices, aliased, sensor_lock, settings_cmds,
                         sensors_cmds, handled, last_msg, events>>
       \/ /\ c \notin closed
          /\ events < budget
          /\ events' = events + 1
          /\ handled' = handled \cup {c}
          /\ \E m \in Inbound :
               /\ last_msg' = [by |-> c, msg |-> m]
               /\ IF m.kind = "undecodable"
                  THEN /\ cpc' = [cpc EXCEPT ![c] = "recv"]
                       /\ UNCHANGED <<settings, devices, aliased, sensor_lock,
                                      settings_cmds, sensors_cmds>>
                  ELSE HandleMessage(c, m)
               /\ IF cpc'[c] = "removed"
                  THEN RemoveClient(c)
                  ELSE UNCHANGED <<clients, closed>>
    /\ UNCHANGED <<now, auxVars, settings_file, sensor_file, history, settings_lock,
                   client_lock, client_count, outbox, schedPc, schedError,
                   next_scan, interval, max_attempts, existing, wake_at, rdevices,
                   keys_left, cur_addr, attempts, readings_complete, bc_message,
                   bc_size, bc_last, bc_members, trace, saves, cycles, discovery>>

\* the peer closes the connection, or the transport breaks
Drop(c) ==
    /\ LoopFree
    /\ c \in clients \ closed
    /\ events < budget
    /\ events' = events + 1
    /\ closed' = closed \cup {c}
    /\ UNCHANGED <<now, auxVars, sharedVars, clients, client_count, cpc, outbox, handled,
                   last_msg,
                   settings_cmds, sensors_cmds, schedVars>>

ClientNext ==
    \/ Connect
    \/ \E c \in ClientIds : ClientSendSensors(c)
    \/ \E c \in ClientIds : ClientRecv(c)
    \/ \E c \in ClientIds : Drop(c)

Next == SchedNext \/ ClientNext \/ Tick

Spec == Init /\ [][Next]_vars

(* ------------------- find_new_xdevices.py on its own -------------------- *)
\* the program as constructed, with the arguments of one evaluation
InitFn(inputs) ==
    /\ InitProgram
    /\ schedPc = "created"
    /\ wake_at = 0
    /\ budget = MaxEvents
    /\ fn_pc = "in"
    /\ fn_in \in inputs
    /\ fn_out = <<>>

InitScan == InitFn([found : BatchScans, existing : KnownSets])

\* one run of the script
RunScan ==
    /\ fn_pc = "in"
    /\ fn_out' = FindNewXDevices(fn_in.found, fn_in.existing)
    /\ fn_pc' = "out"
    /\ UNCHANGED <<now, sharedVars, clientVars, schedVars, budget, fn_in>>

SpecScan == InitScan /\ [][RunScan]_vars

(* --------------------- update_histories on its own --------------------- *)
HistTimes == {0, 1, 2}
HistTemps == {20, 21}
HistReadings == [timestamp : HistTimes, temperature : HistTemps]

\* what a history file can hold: timestamp -> the reading of that time
Histories ==
    UNION { { h \in [T -> HistReadings] : \A t \in T : h[t].timestamp = t } :
            T \in SUBSET HistTimes }

HistDevice == NewDevice([addr |-> AddrA, name |-> TEMP_HUM_DEV_NAME], 1)

\* the history file is missing, or holds a history
HistFiles ==
    {EmptyDict} \cup { [f \in {HistDevice.history_file} |-> h] : h \in Histories }

InitHistory ==
    InitFn([files : HistFiles, first : HistReadings, second : HistReadings])

\* update_histories(device, first)
AppendFirst ==
    /\ fn_pc = "in"
    /\ fn_out' = UpdateHistories(fn_in.files, HistDevice, fn_in.first)
    /\ fn_pc' = "mid"
    /\ UNCHANGED <<now, sharedVars, clientVars, schedVars, budget, fn_in>>

\* update_histories(device, second)
AppendSecond ==
    /\ fn_pc = "mid"
    /\ fn_out' = UpdateHistories(fn_out, HistDevice, fn_in.second)
    /\ fn_pc' = "out"
    /\ UNCHANGED <<now, sharedVars, clientVars, schedVars, budget, fn_in>>

NextHistory == AppendFirst \/ AppendSecond

SpecHistory == InitHistory /\ [][NextHistory]_vars

(* ----------------------- the sessions on their own --------------------- *)
\* lines 84-94 and 157: gather_readings has started, found no scan due and
\* sleeps; the connections below arrive before the second is over
InitSessions ==
    /\ InitProgram
    /\ schedPc = "sleeping"
    /\ wake_at = 1
    /\ budget = MaxSessionEvents
    /\ NoFn

NextSessions == ClientNext

SpecSessions == InitSessions /\ [][NextSessions]_vars

TypeOK ==
    /\ now \in 0 .. MaxTime
    /\ schedPc \in AwaitPc \cup TransientPc \cup {"blocked"}
    /\ clients \subseteq ClientIds
    /\ attempts \in 0 .. 3
    /\ events \in 0 .. budget
    /\ client_count \in 0 .. budget
    /\ fn_pc \in {"idle", "in", "mid", "out"}
    /\ discovery.how \in {"none", "exit0", "failed", "timeout"}

(* ------------------------------- claims ------------------------------- *)
LastAttempt == trace[Len(trace)]

\* C1: in the Persisting step the new next_scan is the previous next_scan
\* plus the interval of the cycle when that is not earlier than the current
\* time, and the current time otherwise; the value is written into Settings.
C1_NextScanAdvance ==
    [][schedPc = "advance" /\ schedPc' = "loop" =>
         /\ next_scan' = (IF next_scan + interval >= now
                          THEN next_scan + interval ELSE now)
         /\ settings'.next_scan = IsoFormat(next_scan')
         /\ settings_file' = Dumps(settings')]_vars

\* a cycle was persisted with next_scan anchored to the old schedule, in
\* the future
C1_Witness == cycles >= 1 /\ schedPc = "sleeping" /\ next_scan > now

\* C2: a timed-out attempt with attempts left is followed by another
\* invocation for the same device; a successful attempt ends the loop with
\* its Reading as last_reading.
C2_RetryLoop ==
    [][schedPc = "attempt" /\ trace # <<>> =>
         /\ LastAttempt.outcome = TIMED_OUT /\ Len(trace) < max_attempts =>
              schedPc' = "reading" /\ cur_addr' = cur_addr /\ trace' = trace
         /\ LastAttempt.outcome = OK =>
              /\ schedPc' = "next_device"
              /\ rdevices[cur_addr].last_reading = LastAttempt.reading
              /\ rdevices' = rdevices]_vars

\* max_attempts = 3; timeout, timeout, success: three invocations, and the
\* third Reading is the device's last_reading
C2_Witness ==
    /\ schedPc = "attempt"
    /\ max_attempts = 3
    /\ Len(trace) = 3
    /\ trace[1].outcome = TIMED_OUT
    /\ trace[2].outcome = TIMED_OUT
    /\ trace[3].outcome = OK
    /\ rdevices[cur_addr].last_reading = trace[3].reading

\* C3: after an attempt that reports disconnected, no further read is
\* invoked for that device in the cycle: a disconnected attempt is the last
\* one of the device's attempts, and the device is not iterated again.
C3_NoInvocationAfterDisconnect ==
    /\ \A i \in 1 .. Len(trace) - 1 : trace[i].outcome # DISCONNECTED
    /\ trace # <<>> /\ LastAttempt.outcome = DISCONNECTED => schedPc # "reading"
    /\ cur_addr \notin keys_left

\* disconnected on attempt 1 of 3: the loop of that device is over after
\* one invocation
C3_Witness ==
    /\ schedPc = "next_device"
    /\ max_attempts = 3
    /\ Len(trace) = 1
    /\ trace[1].outcome = DISCONNECTED

\* C4: the merge step leaves the record of every address that is in the
\* Device map just before the merge as it is.
C4_MergeKeepsExisting ==
    [][schedPc = "discovering" /\ schedPc' = "next_device" =>
         \A a \in DOMAIN devices :
            a \in DOMAIN devices' /\ devices'[a] = devices[a]]_vars

\* C5 (as stated): save_id is its initial value plus the number of
\* completed saves.
C5_SaveIdCountsSaves == settings.save_id = InitialSettings.save_id + saves

\* C5 (amended): a completed save increments the save_id of the Settings
\* value by exactly 1; a `settings` command sets it to the payload's
\* save_id; nothing else changes it.
C5_EachSaveIncrements ==
    [][/\ saves' = saves + 1 => settings'.save_id = settings.save_id + 1
       /\ settings_cmds' # settings_cmds =>
            settings'.save_id = SettingsPayload.save_id
       /\ saves' = saves /\ settings_cmds' = settings_cmds =>
            settings'.save_id = settings.save_id]_vars

\* a save before and a save after a `settings` command
C5_Witness ==
    /\ saves = 2
    /\ settings_cmds = 1
    /\ settings.save_id = SettingsPayload.save_id + 1

InBroadcast == schedPc \in {"broadcast", "sending"}

\* C6: when a broadcast with no target is over, every session that was
\* Active when it was issued (and still is) has been sent the message, and
\* a message is only ever sent to a session of the session set.
C6_BroadcastReachesActive ==
    [][/\ InBroadcast /\ schedPc' \notin {"broadcast", "sending"} =>
            \A c \in (bc_members \cap clients) \ closed : c <= bc_last
       /\ \A c \in ClientIds : outbox'[c] # outbox[c] => c \in clients']_vars

\* C7: a failed send to one session does not abort the broadcast: while
\* other Active sessions are still to be sent to, the iteration goes on.
C7_FailedSendDoesNotAbort ==
    [][LET key == NextKey(clients, bc_size, bc_last) IN
       /\ InBroadcast
       /\ key >= 0 /\ SendFails(key, closed)
       /\ \E c \in clients \ closed : c > key
       => schedPc' \in {"broadcast", "sending"}]_vars

\* C8: the failure of a session (a failed send to it, an error while its
\* message is handled) neither ends the scheduler nor stops the other tasks.
C8_SessionFailureIsContained ==
    /\ schedError # "ConnectionClosed"
    /\ ~Blocked

\* the messages broadcast_message sent to session c alone
Targeted(c) ==
    LET ToSession(m) == m.to = c IN SelectSeq(outbox[c], ToSession)

\* C9 (as stated): the first message sent to a session is the Settings
\* snapshot and the second the Device snapshot, both sent to it alone, and
\* both before a message of the session is processed.
C9_FirstTwoMessages ==
    \A c \in ClientIds :
       /\ Len(outbox[c]) >= 1 =>
            outbox[c][1].to = c /\ outbox[c][1].text.json.cmd = "settings"
       /\ Len(outbox[c]) >= 2 =>
            outbox[c][2].to = c /\ outbox[c][2].text.json.cmd = "sensors"
       /\ c \in handled => Len(outbox[c]) >= 2

\* C9 (amended): the first message sent to a session is the current
\* Settings snapshot, sent to it alone; the session's task then sends it the
\* current Device snapshot, to it alone, before a message of the session is
\* processed; only broadcasts of the scheduler can come between the two.
C9_SnapshotsOnEntry ==
    [][\A c \in ClientIds :
         /\ outbox[c] = <<>> /\ outbox'[c] # <<>> =>
              /\ outbox'[c] = <<Sent(SettingsMessage(settings), c)>>
              /\ \A d \in ClientIds \ {c} : outbox'[d] = outbox[d]
         /\ Len(Targeted(c))' > Len(Targeted(c)) /\ outbox[c] # <<>> =>
              /\ Len(Targeted(c)) = 1
              /\ outbox'[c] = Append(outbox[c], Sent(SensorsMessage(devices), c))
              /\ \A d \in ClientIds \ {c} : outbox'[d] = outbox[d]
         /\ c \in handled' => Len(Targeted(c))' = 2]_vars

\* a session got the two snapshots and then had a message processed, with
\* a broadcast of the scheduler between the snapshots
C9_Witness ==
    \E c \in ClientIds :
       /\ c \in handled
       /\ Len(outbox[c]) = 3
       /\ outbox[c][2].to = NoTarget

\* C10: when a `settings` (`sensors`) command has been handled, the new
\* Settings (Device map) has been sent to every Active session.
C10_CommandsBroadcast ==
    [][/\ settings_cmds' # settings_cmds =>
            \A c \in clients' \ closed' :
               /\ outbox'[c] # outbox[c]
               /\ outbox'[c][Len(outbox'[c])].text = SettingsMessage(settings')
       /\ sensors_cmds' # sensors_cmds =>
            \A c \in clients' \ closed' :
               /\ outbox'[c] # outbox[c]
               /\ outbox'[c][Len(outbox'[c])].text = SensorsMessage(devices')]_vars

\* recv() of session c returned m in this step, and m was handled
Received(c, m) ==
    /\ events' = events + 1
    /\ client_count' = client_count
    /\ closed' = closed
    /\ last_msg' = [by |-> c, msg |-> m]

\* what the `single_sensor` command is to do to the Device map
UpdateSensor(devs, payload) ==
    [devs EXCEPT ![payload.index] =
        [@ EXCEPT !.sensor_name = payload.sensor.sensor_name,
                  !.active = payload.sensor.active]]

\* C11: a `single_sensor` command whose index is a registered address sets
\* sensor_name and active of that device to the supplied values and nothing
\* else in the Device map, sends nothing, and leaves the session Active.
C11_SingleSensorUpdates ==
    [][\A c \in ClientIds :
         /\ Received(c, [kind |-> "command", cmd |-> "single_sensor"])
         /\ SingleSensorPayload.index \in DOMAIN devices
         => /\ devices' = UpdateSensor(devices, SingleSensorPayload)
            /\ outbox' = outbox
            /\ c \in clients' \ closed'
            /\ cpc'[c] = "recv"]_vars

\* the messages that are no settings / sensors / single_sensor command: a
\* text that is not JSON, and commands with another cmd
NotACommand ==
    { [kind |-> "undecodable"],
      [kind |-> "no_data", cmd |-> "bogus"],
      [kind |-> "command", cmd |-> "bogus"] }

\* C12: a message that cannot be decoded, or whose cmd is none of settings,
\* sensors, single_sensor, changes neither Settings nor the Device map nor
\* the session set, and its session goes on to receive the next message.
C12_UnknownIsDiscarded ==
    [][\A c \in ClientIds, m \in NotACommand :
         Received(c, m)
         => /\ settings' = settings
            /\ devices' = devices
            /\ clients' = clients
            /\ cpc'[c] = "recv"]_vars

\* C13: when the connection of a session is closed, the session's task
\* removes it from the session set, and it is Removed for good: an id is
\* put into the set only once, and nothing is sent to a removed session.
C13_ClosedSessionRemoved ==
    [][\A c \in ClientIds :
         /\ c \in closed /\ cpc'[c] # cpc[c] => c \notin clients'
         /\ c \in clients' \ clients => cpc[c] = "none"
         /\ outbox'[c] # outbox[c] => c \in clients']_vars

\* the peripherals of a batch that are to be accepted: vendor prefix or
\* model name, and not known
Accepted(found, known) ==
    { p \in { found[i] : i \in 1 .. Len(found) } :
        /\ \/ SubSeq(p.addr, 1, 3) = TEMP_HUM_DEV_ADDR_START
           \/ p.name = TEMP_HUM_DEV_NAME
        /\ p.addr \notin known }

\* C14: over a registry of n known addresses, the k accepted devices of a
\* batch get the labels "Sensor n+1" .. "Sensor n+k", each exactly once,
\* whatever the order of the batch; exactly the peripherals with the vendor
\* prefix or the model name that are not known are accepted.
C14_SequentialLabels ==
    fn_pc = "out" =>
      LET n == Cardinality(fn_in.existing)
          accepted == Accepted(fn_in.found, fn_in.existing)
          k == Cardinality(accepted)
      IN /\ DOMAIN fn_out = { p.addr : p \in accepted }
         /\ { fn_out[a].sensor_name : a \in DOMAIN fn_out }
              = { <<"Sensor ", i \div 10, i % 10>> : i \in (n + 1) .. (n + k) }
         /\ \A a, b \in DOMAIN fn_out :
              a # b => fn_out[a].sensor_name # fn_out[b].sensor_name

\* one known address, a batch of four in which the name-only device comes
\* before the prefix-only one: labels 02 and 03 in that order
C14_Witness ==
    /\ fn_pc = "out"
    /\ fn_in.existing = {AddrA}
    /\ Len(fn_in.found) = 4
    /\ DOMAIN fn_out = {AddrB, AddrC}
    /\ fn_out[AddrC].sensor_name = <<"Sensor ", 0, 2>>
    /\ fn_out[AddrB].sensor_name = <<"Sensor ", 0, 3>>

\* the history a set of files holds for the device
HistoryOf(files) ==
    IF HistDevice.history_file \in DOMAIN files
    THEN files[HistDevice.history_file] ELSE EmptyDict

\* C15: after two appends with the same timestamp and different payloads,
\* the history has one entry under that timestamp, the later payload, and
\* the entries under other timestamps are as they were.
C15_LaterPayloadWins ==
    fn_pc = "out"
    /\ fn_in.first.timestamp = fn_in.second.timestamp
    /\ fn_in.first # fn_in.second
    => LET before == HistoryOf(fn_in.files)
           after == HistoryOf(fn_out)
           ts == fn_in.second.timestamp
       IN /\ ts \in DOMAIN after
          /\ after[ts] = fn_in.second
          /\ DOMAIN after = DOMAIN before \cup {ts}
          /\ \A t \in DOMAIN before \ {ts} : after[t] = before[t]

\* a history with entries at 0 and 1; 20 and then 21 degrees appended at 1
C15_Witness ==
    /\ fn_pc = "out"
    /\ DOMAIN HistoryOf(fn_in.files) = {0, 1}
    /\ fn_in.first = [timestamp |-> 1, temperature |-> 20]
    /\ fn_in.second = [timestamp |-> 1, temperature |-> 21]
    /\ HistoryOf(fn_out)[1].temperature = 21
    /\ HistoryOf(fn_out)[0] = HistoryOf(fn_in.files)[0]

ReadPcs == {"next_device", "attempt", "reading"}

\* the step is a read attempt that succeeded
SuccessfulAttempt ==
    /\ trace' # trace
    /\ trace' # <<>>
    /\ trace'[Len(trace')].outcome = OK

\* C16: attempts that end without success add nothing: during the reading
\* pass only a successful attempt changes a last_reading or a history, and
\* the pass ends with the registry holding what the pass left.
C16_FailureKeepsLastReading ==
    [][/\ schedPc \in ReadPcs /\ schedPc' \in ReadPcs \cup {"store"}
          /\ ~SuccessfulAttempt
          => rdevices' = rdevices /\ history' = history
       /\ schedPc = "store" /\ schedPc' = "broadcast"
          => devices' = rdevices /\ history' = history]_vars

\* second cycle: the device has the reading of the first cycle, and three
\* attempts timed out
C16_Witness ==
    /\ cycles = 1
    /\ schedPc = "next_device"
    /\ Len(trace) = 3
    /\ \A i \in 1 .. 3 : trace[i].outcome = TIMED_OUT
    /\ rdevices[cur_addr].last_reading = [timestamp |-> 1, temperature |-> 21]
    /\ DOMAIN history[rdevices[cur_addr].history_file] = {1}
    /\ now = 2

\* C17: a transient hardware failure of a read (the 180 s ceiling, a
\* timed-out or a disconnected exit status) does not end the scheduler: the
\* only read failure that ends it is the invalid-arguments error.
C17_TransientFailureNoCrash ==
    [][schedPc = "reading" /\ schedPc' = "dead" => schedError' = "RuntimeError"]_vars

\* C18: a read attempt whose outcome is none of OK, timed-out, disconnected
\* or user-cancelled aborts the reading cycle: the loop over the attempts
\* and devices goes on only after one of those four outcomes.
C18_UnknownOutcomeAborts ==
    [][schedPc = "reading" /\ schedPc' = "attempt" =>
         trace'[Len(trace')].outcome
            \in {OK, TIMED_OUT, DISCONNECTED, USER_CANCELLED}]_vars

\* C19: session ids come from a counter that only increases: an id enters
\* the session set only as the current value of the counter, which is then
\* incremented; the ids handed out are those below the counter, so no id
\* is given twice and every id in the set is below the counter.
C19_IdsNeverReused ==
    [][/\ client_count' >= client_count
       /\ clients' \ clients # {} =>
            /\ clients' \ clients = {client_count}
            /\ cpc[client_count] = "none"
            /\ client_count' = client_count + 1
       /\ \A c \in clients' : c < client_count'
       /\ \A c \in ClientIds : cpc'[c] # "none" <=> c < client_count']_vars

\* session 0 came and went, session 1 got the next id
C19_Witness ==
    /\ client_count = 2
    /\ clients = {1}
    /\ cpc[0] = "removed"

\* the steps every order of a cycle has: start, idle, discovery and merge,
\* the reading pass
CycleCommon ==
    { <<"created", "loop">>, <<"loop", "sleeping">>, <<"sleeping", "loop">>,
      <<"loop", "discovering">>, <<"discovering", "next_device">>,
      <<"next_device", "attempt">>, <<"attempt", "reading">>,
      <<"reading", "attempt">>, <<"attempt", "next_device">>,
      <<"next_device", "store">> }

\* persist-registry, advance and persist-settings, broadcast, Idle
StatedOrder ==
    CycleCommon \cup
    { <<"store", "advance">>, <<"advance", "broadcast">>,
      <<"broadcast", "sending">>, <<"sending", "sending">>,
      <<"broadcast", "loop">>, <<"sending", "loop">> }

\* persist-registry, broadcast, advance and persist-settings, Idle
BroadcastFirstOrder ==
    CycleCommon \cup
    { <<"store", "broadcast">>, <<"broadcast", "sending">>,
      <<"sending", "sending">>, <<"broadcast", "advance">>,
      <<"sending", "advance">>, <<"advance", "loop">> }

\* the scheduler left its loop: an exception, or a lock that is never freed
Stopped == schedPc' \in {"dead", "blocked"}

Broadcasts(c) ==
    LET ToAll(m) == m.to = NoTarget IN SelectSeq(outbox[c], ToAll)

\* C21: when a cycle is complete, every connected session has been sent, by
\* a broadcast to all sessions, the Device snapshot of the cycle and the
\* Settings snapshot with the advanced next_scan and the incremented
\* save_id.
C21_CycleBroadcastsBoth ==
    [][cycles' = cycles + 1 =>
         \A c \in clients' \ closed' :
            /\ \E i \in 1 .. Len(Broadcasts(c)') :
                 Broadcasts(c)'[i].text.json.cmd = "sensors"
            /\ \E i \in 1 .. Len(Broadcasts(c)') :
                 /\ Broadcasts(c)'[i].text.json.cmd = "settings"
                 /\ Broadcasts(c)'[i].text.json.data = settings']_vars

\* the entry the step added to the outbox of session c
NewEntry(c) == outbox'[c][Len(outbox'[c])]

C23_FanOutUndisturbed ==
    [][InBroadcast /\ Cardinality(clients) # bc_size =>
         schedPc' \in {"broadcast", "sending", AfterBroadcast}]_vars

\* C24: every lock is released on every exit path of the operation that
\* acquired it: whenever the event loop is to pick the next task, no lock
\* is held, and no task ever blocks on a lock.
C24_LocksAlwaysReleased ==
    /\ ~Blocked
    /\ LoopFree => ~settings_lock /\ ~sensor_lock /\ ~client_lock

\* C25: the scheduler starts a cycle only when the current time is at or
\* past the next_scan of the Settings, also after a `settings` command has
\* replaced next_scan.
C25_SettingsNextScanIsGate ==
    [][schedPc' = "discovering" /\ schedPc # "discovering" =>
         now >= FromIsoFormat(settings.next_scan)]_vars

\* the discovery subprocess ended in this step, by the timeout or with a
\* non-zero exit status
DiscoveryFailed ==
    /\ schedPc = "discovering"
    /\ discovery'.how \in {"failed", "timeout"}

\* C26: when the discovery operation times out or exits with a non-zero
\* status, discovery returns an empty result, the merge step changes
\* neither the Device map nor the registry file, and the reading pass
\* begins over the Device map.
C26_FailedDiscoveryIsEmpty ==
    [][DiscoveryFailed =>
         /\ discovery'.result = EmptyDict
         /\ devices' = devices
         /\ sensor_file' = sensor_file
         /\ schedPc' = "next_device"
         /\ rdevices' = devices
         /\ keys_left' = DOMAIN devices]_vars

\* the discovery of the second cycle timed out: the device the first cycle
\* found is still registered and is about to be read
C26_Witness ==
    /\ schedPc = "next_device"
    /\ discovery.how = "timeout"
    /\ cycles = 1
    /\ DOMAIN devices = {AddrA}
    /\ keys_left = {AddrA}

\* C27: a Device map a `sensors` command installs during the reading pass
\* does not change the map of the pass, and at the end of the pass the map
\* of the pass becomes the shared Device map, is persisted and is what the
\* next broadcast carries: the client's map is gone.
C27_ClientMapLostAtStore ==
    [][/\ schedPc \in ReadPcs /\ sensors_cmds' # sensors_cmds =>
            /\ rdevices' = rdevices
            /\ ~aliased'
            /\ devices' = DevicesPayload
       /\ schedPc = "store" /\ schedPc' = "broadcast" =>
            /\ devices' = rdevices
            /\ sensor_file' = Dumps(rdevices)
            /\ bc_message'.json.data = rdevices]_vars

\* in the first cycle a session was sent the merged Device map and then
\* sent a `sensors` command; the pass is over and the shared map is the
\* map of the pass again, not the client's
C27_Witness ==
    \E c \in ClientIds :
       /\ cycles = 0
       /\ schedPc = "broadcast"
       /\ sensors_cmds = 1
       /\ last_msg = [by |-> c, msg |-> [kind |-> "command", cmd |-> "sensors"]]
       /\ Len(outbox[c]) = 2
       /\ outbox[c][2].to = c
       /\ AddrA \in DOMAIN outbox[c][2].text.json.data
       /\ outbox[c][2].text.json.data[AddrA].sensor_name = SensorName(1)
       /\ devices # DevicesPayload
       /\ devices[AddrA].sensor_name = SensorName(1)
       /\ sensor_file = Dumps(devices)

====
